---- MODULE Spec2Model ----
(***************************************************************************)
(* Model of libssh's misc.c: the singly linked ssh_list with its           *)
(* ssh_iterator nodes (ssh_list_new, ssh_list_free, ssh_list_get_iterator, *)
(* ssh_list_add, ssh_list_remove, _ssh_list_get_head) and the path helper  *)
(* ssh_basename.                                                           *)
(*                                                                         *)
(* The heap is explicit: node storage is a finite set of addresses, each   *)
(* with a next and a data field, and malloc may hand out any address that  *)
(* is not currently allocated (released storage included) or fail.         *)
(***************************************************************************)
EXTENDS Integers, Sequences, FiniteSets, TLC

\* ---------------------------------------------------------------- bounds
\* Number of struct ssh_iterator blocks the heap can hold.
MaxNodes == 3
\* Number of distinct non-NULL data references callers pass to ssh_list_add.
NumData == 1
\* Longest path string handed to ssh_basename.
MaxPathLen == 4

\* ------------------------------------------------------------- constants
NULL == 0
SSH_OK == 0
SSH_ERROR == -1
\* Contents of storage that has been released and not yet rewritten.
Junk == -2

Addr == 1..MaxNodes
Ptr == Addr \cup {NULL}
\* The struct ssh_list blocks: the list the calls are made on and one other
\* list, whose nodes are foreign to the first.
Lists == {1, 2}
DataRef == 0..NumData

VARIABLES
  lalloc,   \* the struct ssh_list blocks currently allocated
  root,     \* list->root, per list block
  end,      \* list->end, per list block
  alloc,    \* the struct ssh_iterator blocks currently allocated
  next,     \* iterator->next, per node block
  data,     \* iterator->data, per node block
  op,       \* the last call: its name, list, argument, return value, the
            \* node block it allocated or released, and its loop iterations
  pre,      \* while the last call is a successful ssh_list_add, or the
            \* ssh_list_remove of the node that add made: the list as the
            \* add found it
  uaf,      \* the last call read a block after releasing it
  dfree,    \* the last call released a block that was not allocated
  touched,  \* data referents the list code has freed or written through
  elems,    \* per list: the <<node, data>> of the elements added and not
            \* yet handed to ssh_list_remove or popped, in the order added
  stale,    \* in runs of a caller that keeps an iterator past its removal:
            \* the node block ssh_list_remove or _ssh_list_get_head
            \* released last, NULL before the first release
  added,    \* per list, in runs that only create lists and add to them:
            \* the data references of the successful ssh_list_add calls
  fn,       \* the path function called last
  path,     \* its argument
  res       \* the string it returned

heap == <<lalloc, root, end, alloc, next, data>>
lvars == <<lalloc, root, end, alloc, next, data, op, pre, uaf, dfree,
           touched, elems, stale, added>>
pvars == <<fn, path, res>>
vars == <<lalloc, root, end, alloc, next, data, op, pre, uaf, dfree, touched,
          elems, stale, added, fn, path, res>>

\* ------------------------------------------------------------- traversal
\* Follow next links from ptr; the fuel exceeds the number of node blocks,
\* so a cycle shows up as a repeated address.
RECURSIVE Walk(_, _, _)
Walk(nx, ptr, fuel) ==
  IF ptr \notin Addr \/ fuel = 0
  THEN <<>>
  ELSE <<ptr>> \o Walk(nx, nx[ptr], fuel - 1)

ssh_list_get_iterator(l) == root[l]

\* The node addresses met walking from ssh_list_get_iterator(l).
Chain(l) == Walk(next, ssh_list_get_iterator(l), MaxNodes + 1)

\* The data references met on that walk.
Traverse(l) == [i \in 1..Len(Chain(l)) |-> data[Chain(l)[i]]]

\* The list l as a call finds it.
Snap(l) == [of |-> l, root |-> root[l], end |-> end[l],
            chain |-> Chain(l), trav |-> Traverse(l)]

NoSnap == [of |-> NULL, root |-> NULL, end |-> NULL,
           chain |-> <<>>, trav |-> <<>>]

Call(name, l, arg, ret, node, n) ==
  [name |-> name, l |-> l, arg |-> arg, ret |-> ret, node |-> node, n |-> n]

\* malloc: any block not currently allocated, or NULL.
malloc(blocks, used) == (blocks \ used) \cup {NULL}

\* --------------------------------------------------------------- strings
\* A C string is the sequence of its characters before the terminating NUL;
\* NullStr is the NULL char pointer.
Slash == "/"
Char == {Slash, "a", "b"}
NullStr == <<"NULL">>

RECURSIVE StrOfLen(_)
StrOfLen(n) ==
  IF n = 0 THEN {<<>>}
  ELSE {Append(s, c) : s \in StrOfLen(n - 1), c \in Char}

Paths == UNION {StrOfLen(n) : n \in 0..MaxPathLen} \cup {NullStr}

\* ------------------------------------------------------------------ Init
Init ==
  /\ lalloc = {}
  /\ root = [l \in Lists |-> Junk]
  /\ end = [l \in Lists |-> Junk]
  /\ alloc = {}
  /\ next = [a \in Addr |-> Junk]
  /\ data = [a \in Addr |-> Junk]
  /\ op = Call("init", NULL, NULL, NULL, NULL, 0)
  /\ pre = NoSnap
  /\ dfree = FALSE
  /\ uaf = FALSE
  /\ touched = {}
  /\ elems = [l \in Lists |-> <<>>]
  /\ stale = NULL
  /\ added = [l \in Lists |-> <<>>]
  /\ fn = "none"
  /\ path = NullStr
  /\ res = NullStr

\* ---------------------------------------------------------- ssh_list_new
ssh_list_new ==
  \E ret \in malloc(Lists, lalloc) :
    /\ IF ret = NULL
       THEN UNCHANGED <<lalloc, root, end, elems, added>>
       ELSE /\ lalloc' = lalloc \cup {ret}
            /\ root' = [root EXCEPT ![ret] = NULL]
            /\ end' = [end EXCEPT ![ret] = NULL]
            /\ elems' = [elems EXCEPT ![ret] = <<>>]
            /\ added' = [added EXCEPT ![ret] = <<>>]
    /\ op' = Call("new", ret, NULL, ret, NULL, 0)
    /\ pre' = NoSnap
    /\ uaf' = FALSE
    /\ dfree' = FALSE
    /\ UNCHANGED <<alloc, next, data, touched, stale, pvars>>

\* ------------------------------------------------- ssh_list_get_iterator
get_iterator(l) ==
  /\ l \in lalloc
  /\ op' = Call("get_iterator", l, NULL, ssh_list_get_iterator(l), NULL, 0)
  /\ pre' = NoSnap
  /\ uaf' = FALSE
  /\ dfree' = FALSE
  /\ UNCHANGED <<heap, touched, elems, stale, added, pvars>>

\* ------------------------------------------------------------- free()
\* A SAFE_FREE that only clears the pointer and never calls free.
free_alloc_none(al, a) == al

\* free(a) on a node block: the block leaves the allocated set and its
\* contents become indeterminate.
free_alloc(al, a) == al \ {a}
free_field(f, a) == [f EXCEPT ![a] = Junk]

\* ----------------------------------------------------- ssh_iterator_new
\* The node fields after ssh_iterator_new(d) when malloc returned iterator.
ssh_iterator_new(d, iterator) ==
  IF iterator = NULL
  THEN [alloc |-> alloc, next |-> next, data |-> data]
  ELSE [alloc |-> alloc \cup {iterator},
        next |-> [next EXCEPT ![iterator] = NULL],
        data |-> [data EXCEPT ![iterator] = d]]

\* --------------------------------------------------------- ssh_list_add
\* list->root after the if/else of ssh_list_add.
add_root(l, iterator) == IF end[l] = NULL THEN iterator ELSE root[l]

\* ssh_list_add that forgets list->end->next=iterator.
add_link_drop(l, iterator, nx) == nx

\* The next fields after the if/else: list->end->next=iterator when the
\* list is not empty.
add_link(l, iterator, nx) ==
  IF end[l] = NULL THEN nx ELSE [nx EXCEPT ![end[l]] = iterator]

\* list->end after the if/else.
add_end(l, iterator) == iterator

\* ssh_list_add that returns SSH_OK whatever ssh_iterator_new returned.
add_status_ok(iterator) == SSH_OK

\* The return value: SSH_ERROR when ssh_iterator_new returned NULL.
add_status(iterator) == IF iterator = NULL THEN SSH_ERROR ELSE SSH_OK

ssh_list_add(l, d) ==
  /\ l \in lalloc
  /\ \E iterator \in malloc(Addr, alloc) :
       LET n == ssh_iterator_new(d, iterator) IN
       /\ IF iterator = NULL
          THEN /\ UNCHANGED <<heap, elems>>
               /\ pre' = NoSnap
          ELSE /\ alloc' = n.alloc
               /\ data' = n.data
               /\ next' = add_link(l, iterator, n.next)
               /\ root' = [root EXCEPT ![l] = add_root(l, iterator)]
               /\ end' = [end EXCEPT ![l] = add_end(l, iterator)]
               /\ UNCHANGED lalloc
               /\ pre' = Snap(l)
               /\ elems' = [elems EXCEPT ![l] = Append(@, <<iterator, d>>)]
       /\ op' = Call("add", l, d, add_status(iterator), iterator, 0)
  /\ uaf' = FALSE
  /\ dfree' = FALSE
  /\ UNCHANGED <<touched, stale, pvars>>

\* ------------------------------------------------------ ssh_list_remove
\* A scan whose loop test is ptr->next instead of ptr: it stops on the last
\* node instead of running off the chain.
RECURSIVE Scan_stop_at_tail(_, _, _, _, _)
Scan_stop_at_tail(nx, ptr, prev, iterator, n) ==
  IF n > MaxNodes
  THEN [ptr |-> NULL, prev |-> prev, n |-> n]
  ELSE IF ptr \in Addr /\ nx[ptr] \in Addr /\ ptr # iterator
       THEN Scan_stop_at_tail(nx, nx[ptr], ptr, iterator, n + 1)
       ELSE [ptr |-> ptr, prev |-> prev, n |-> n]

\* A scan whose loop test is !iterator instead of ptr != iterator: for any
\* iterator but NULL it stops on the first node.
RECURSIVE Scan_first(_, _, _, _, _)
Scan_first(nx, ptr, prev, iterator, n) ==
  IF n > MaxNodes
  THEN [ptr |-> NULL, prev |-> prev, n |-> n]
  ELSE IF ptr \in Addr /\ iterator = NULL
       THEN Scan_first(nx, nx[ptr], ptr, iterator, n + 1)
       ELSE [ptr |-> ptr, prev |-> prev, n |-> n]

\* A scan that forgets ptr=ptr->next: it stays on the node it started on.
RECURSIVE Scan_stuck(_, _, _, _, _)
Scan_stuck(nx, ptr, prev, iterator, n) ==
  IF n > MaxNodes
  THEN [ptr |-> NULL, prev |-> prev, n |-> n]
  ELSE IF ptr \in Addr /\ ptr # iterator
       THEN Scan_stuck(nx, ptr, ptr, iterator, n + 1)
       ELSE [ptr |-> ptr, prev |-> prev, n |-> n]

\* The predecessor scan: ptr and prev when the while loop ends, and the
\* number n of iterations it took.  A scan still running after more
\* iterations than there are node blocks is in a cycle; it is cut off there
\* with n > MaxNodes and nothing found.
RECURSIVE Scan(_, _, _, _, _)
Scan(nx, ptr, prev, iterator, n) ==
  IF n > MaxNodes
  THEN [ptr |-> NULL, prev |-> prev, n |-> n]
  ELSE IF ptr \in Addr /\ ptr # iterator
       THEN Scan(nx, nx[ptr], ptr, iterator, n + 1)
       ELSE [ptr |-> ptr, prev |-> prev, n |-> n]

\* ssh_list_remove that never rewrites the predecessor's link.
remove_unlink_skip(prev, ptr) == next

\* if(prev) prev->next=ptr->next;
remove_unlink(prev, ptr) ==
  IF prev # NULL THEN [next EXCEPT ![prev] = next[ptr]] ELSE next

\* ssh_list_remove that empties list->root when it removes the head.
remove_root_null(l, iterator, nx) ==
  IF root[l] = iterator THEN NULL ELSE root[l]

\* ssh_list_remove that never advances list->root.
remove_root_keep(l, iterator, nx) == root[l]

\* if(list->root == iterator) list->root=iterator->next;
remove_root(l, iterator, nx) ==
  IF root[l] = iterator THEN nx[iterator] ELSE root[l]

\* ssh_list_remove that clears list->end, as _ssh_list_get_head does,
\* when it removes the last node.
remove_end_prevless(l, iterator, prev) ==
  IF end[l] = iterator THEN NULL ELSE end[l]

\* ssh_list_remove that never moves list->end back.
remove_end_keep(l, iterator, prev) == end[l]

\* if(list->end == iterator) list->end = prev;
remove_end(l, iterator, prev) ==
  IF end[l] = iterator THEN prev ELSE end[l]

\* What ssh_list_remove(l, iterator) leaves: the node it released (NULL
\* when the scan found nothing), the iterations of its scan, and the heap.
remove_result(l, iterator) ==
  LET s == Scan(next, root[l], NULL, iterator, 0) IN
  IF s.ptr = NULL
  THEN [node |-> NULL, n |-> s.n, root |-> root, end |-> end,
        alloc |-> alloc, next |-> next, data |-> data]
  ELSE LET nx == remove_unlink(s.prev, s.ptr) IN
       [node |-> iterator, n |-> s.n,
        root |-> [root EXCEPT ![l] = remove_root(l, iterator, nx)],
        end |-> [end EXCEPT ![l] = remove_end(l, iterator, s.prev)],
        alloc |-> free_alloc(alloc, iterator),
        next |-> free_field(nx, iterator),
        data |-> free_field(data, iterator)]

ssh_list_remove(l, iterator) ==
  /\ l \in lalloc
  /\ \E r \in {remove_result(l, iterator)} :
     /\ root' = r.root
     /\ end' = r.end
     /\ alloc' = r.alloc
     /\ next' = r.next
     /\ data' = r.data
     /\ dfree' = (r.node # NULL /\ r.node \notin alloc)
     /\ op' = Call("remove", l, iterator, NULL, r.node, r.n)
     /\ pre' = IF r.node # NULL /\ op.name = "add" /\ op.l = l
                  /\ op.node = iterator
               THEN pre ELSE NoSnap
  /\ UNCHANGED lalloc
  /\ uaf' = FALSE
  /\ elems' = [elems EXCEPT ![l] = SelectSeq(@, LAMBDA e : e[1] # iterator)]
  /\ UNCHANGED added
  /\ UNCHANGED <<touched, pvars>>

\* --------------------------------------------------- _ssh_list_get_head
\* _ssh_list_get_head that clears list->end on every pop.
get_head_end_null(l, iterator) == NULL

\* _ssh_list_get_head that never clears list->end.
get_head_end_keep(l, iterator) == end[l]

\* if(list->end==iterator) list->end=NULL;
get_head_end(l, iterator) == IF end[l] = iterator THEN NULL ELSE end[l]

\* _ssh_list_get_head that never advances list->root.
get_head_root_stay(l, iterator) == root[l]

\* list->root=iterator->next;
get_head_root(l, iterator) == next[iterator]

\* _ssh_list_get_head that returns the data of the last node.
get_head_data_end(l, iterator) == data[end[l]]

\* data=iterator->data;
get_head_data(l, iterator) == data[iterator]

_ssh_list_get_head(l) ==
  /\ l \in lalloc
  /\ LET iterator == root[l] IN
     IF root[l] = NULL
     THEN /\ UNCHANGED heap
          /\ dfree' = FALSE
          /\ op' = Call("get_head", l, NULL, NULL, NULL, 0)
     ELSE /\ root' = [root EXCEPT ![l] = get_head_root(l, iterator)]
          /\ end' = [end EXCEPT ![l] = get_head_end(l, iterator)]
          /\ alloc' = free_alloc(alloc, iterator)
          /\ next' = free_field(next, iterator)
          /\ data' = free_field(data, iterator)
          /\ dfree' = (iterator \notin alloc)
          /\ UNCHANGED lalloc
          /\ op' = Call("get_head", l, NULL, get_head_data(l, iterator),
                        iterator, 0)
  /\ pre' = NoSnap
  /\ uaf' = FALSE
  /\ elems' = [elems EXCEPT ![l] = IF @ = <<>> THEN @ ELSE Tail(@)]
  /\ UNCHANGED added
  /\ UNCHANGED <<touched, pvars>>

\* -------------------------------------------------------- ssh_list_free
\* What a call does to heap blocks, in program order: it reads a block or
\* releases it.
Ev(kind, blk) == [k |-> kind, b |-> blk]
NodeBlk(a) == <<"node", a>>
ListBlk(l) == <<"list", l>>

\* Some block is read after the same call released it.
ReadAfterFree(ev) ==
  \E i, j \in 1..Len(ev) :
    i < j /\ ev[i].k = "free" /\ ev[j].k = "read" /\ ev[i].b = ev[j].b

\* Some block is released twice, or released while not in the set live of
\* blocks allocated when the call began.
BadFree(ev, live) ==
  \/ \E i, j \in 1..Len(ev) :
       i < j /\ ev[i].k = "free" /\ ev[j].k = "free" /\ ev[i].b = ev[j].b
  \/ \E i \in 1..Len(ev) : ev[i].k = "free" /\ ev[i].b \notin live

\* A loop body that releases ptr before it reads ptr->next.
free_body_late(ptr) == <<Ev("free", NodeBlk(ptr)), Ev("read", NodeBlk(ptr))>>

\* One iteration of the while loop on the node ptr: next=ptr->next, then
\* SAFE_FREE(ptr).
free_body(ptr) == <<Ev("read", NodeBlk(ptr)), Ev("free", NodeBlk(ptr))>>

\* The data referents one iteration frees or writes through.
free_data(ptr, dt) == {}

\* The while loop of ssh_list_free from ptr on: what it does to the heap
\* blocks in order, the data referents it touches, and the node heap it
\* leaves.
RECURSIVE free_loop(_, _, _, _, _)
free_loop(ptr, al, nx, dt, fuel) ==
  IF ptr \notin Addr \/ fuel = 0
  THEN [ev |-> <<>>, touched |-> {}, n |-> 0,
        alloc |-> al, next |-> nx, data |-> dt]
  ELSE LET r == free_loop(nx[ptr], free_alloc(al, ptr), free_field(nx, ptr),
                          free_field(dt, ptr), fuel - 1)
       IN [r EXCEPT !.ev = free_body(ptr) \o @,
                    !.touched = free_data(ptr, dt) \cup @,
                    !.n = @ + 1]

ssh_list_free(l) ==
  /\ l \in lalloc
  /\ \E r \in {free_loop(root[l], alloc, next, data, MaxNodes + 1)} :
     LET ev == <<Ev("read", ListBlk(l))>> \o r.ev
                 \o <<Ev("free", ListBlk(l))>>
         live == {NodeBlk(a) : a \in alloc} \cup {ListBlk(k) : k \in lalloc}
     IN /\ alloc' = r.alloc
        /\ next' = r.next
        /\ data' = r.data
        /\ uaf' = ReadAfterFree(ev)
        /\ dfree' = BadFree(ev, live)
        /\ touched' = touched \cup r.touched
        /\ op' = Call("free", l, NULL, NULL, NULL, r.n)
  /\ lalloc' = lalloc \ {l}
  /\ root' = [root EXCEPT ![l] = Junk]
  /\ end' = [end EXCEPT ![l] = Junk]
  /\ pre' = NoSnap
  /\ elems' = [elems EXCEPT ![l] = <<>>]
  /\ UNCHANGED <<stale, added, pvars>>

\* --------------------------------------------------------- ssh_basename
\* while(len > 0 && s[len - 1] == '/') --len;
RECURSIVE skip_slashes(_, _)
skip_slashes(s, len) ==
  IF len > 0 /\ s[len] = Slash THEN skip_slashes(s, len - 1) ELSE len

\* The same loop with its test off by one: len > 1.
RECURSIVE skip_name_off(_, _)
skip_name_off(s, len) ==
  IF len > 1 /\ s[len] # Slash THEN skip_name_off(s, len - 1) ELSE len

\* while(len > 0 && path[len - 1] != '/') --len;
RECURSIVE skip_name(_, _)
skip_name(s, len) ==
  IF len > 0 /\ s[len] # Slash THEN skip_name(s, len - 1) ELSE len

strlen(s) == Len(s)
strdup(s) == s
\* strncpy(new, s, len); new[len] = '\0';
strncpy(s, len) == SubSeq(s, 1, len)

\* The string ssh_basename returns when its allocation succeeds.
ssh_basename(p) ==
  IF p = NullStr \/ p = <<>>
  THEN strdup(<<".">>)
  ELSE LET len1 == skip_slashes(p, strlen(p)) IN
       IF len1 = 0
       THEN strdup(<<Slash>>)
       ELSE LET len2 == skip_name(p, len1) IN
            IF len2 > 0
            THEN LET s == SubSeq(p, len2 + 1, Len(p))
                     len3 == skip_slashes(s, strlen(s))
                 IN strncpy(s, len3)
            ELSE strdup(p)

\* A call of ssh_basename: its result, or NULL when strdup or malloc fails.
call_basename ==
  \E p \in Paths :
    /\ fn' = "basename"
    /\ path' = p
    /\ res' \in {ssh_basename(p), NullStr}
    /\ UNCHANGED lvars

\* ---------------------------------------------------------- ssh_dirname
\* The string ssh_dirname returns when its allocation succeeds.
ssh_dirname(p) ==
  IF p = NullStr \/ p = <<>>
  THEN strdup(<<".">>)
  ELSE LET len1 == skip_slashes(p, strlen(p)) IN
       IF len1 = 0
       THEN strdup(<<Slash>>)
       ELSE LET len2 == skip_name(p, len1) IN
            IF len2 = 0
            THEN strdup(<<".">>)
            ELSE IF len2 = 1
                 THEN strdup(<<Slash>>)
                 ELSE LET len3 == skip_slashes(p, len2)
                      IN strncpy(p, len3)

\* A call of ssh_dirname: its result, or NULL when strdup or malloc fails.
call_dirname ==
  \E p \in Paths :
    /\ fn' = "dirname"
    /\ path' = p
    /\ res' \in {ssh_dirname(p), NullStr}
    /\ UNCHANGED lvars

\* ------------------------------------------------------- specifications
\* Any calls on live lists, in any order.
Next ==
  \/ ssh_list_new
  \/ \E l \in Lists : get_iterator(l)
  \/ \E l \in Lists, d \in DataRef : ssh_list_add(l, d) /\ UNCHANGED added
  \/ \E l \in Lists, iterator \in Ptr :
       ssh_list_remove(l, iterator) /\ UNCHANGED stale
  \/ \E l \in Lists : _ssh_list_get_head(l) /\ UNCHANGED stale
  \/ \E l \in Lists : ssh_list_free(l)

Spec == Init /\ [][Next]_vars

\* Lists that are created and then only added to; added keeps the data
\* reference of every ssh_list_add that returned SSH_OK.
RecordAdd(l, d) ==
  added' = IF op'.ret = SSH_OK THEN [added EXCEPT ![l] = Append(@, d)]
           ELSE added

NextAdd ==
  \/ ssh_list_new
  \/ \E l \in Lists : get_iterator(l)
  \/ \E l \in Lists, d \in DataRef : ssh_list_add(l, d) /\ RecordAdd(l, d)

SpecAdd == Init /\ [][NextAdd]_vars

\* A caller with one list at a time that keeps the value of an iterator
\* after the node has been removed or popped; stale is that value.
RecordStale == stale' = IF op'.node # NULL THEN op'.node ELSE stale

NextStale ==
  \/ ssh_list_new /\ lalloc = {}
  \/ \E l \in Lists : get_iterator(l)
  \/ \E l \in Lists, d \in DataRef : ssh_list_add(l, d) /\ UNCHANGED added
  \/ \E l \in Lists, iterator \in Ptr :
       ssh_list_remove(l, iterator) /\ RecordStale
  \/ \E l \in Lists : _ssh_list_get_head(l) /\ RecordStale
  \/ \E l \in Lists : ssh_list_free(l)

SpecStale == Init /\ [][NextStale]_vars

\* Calls of the path functions.
NextPath ==
  \/ call_basename
  \/ call_dirname

SpecPath == Init /\ [][NextPath]_vars

\* ================================================================ claims
Range(seq) == {seq[i] : i \in 1..Len(seq)}
NoDup(seq) == \A i, j \in 1..Len(seq) : i # j => seq[i] # seq[j]
InChain(l, it) == it \in Range(Chain(l))

\* C1: on a list that was created and then only added to, the walk from
\* ssh_list_get_iterator through the next links yields exactly the data
\* references of the successful ssh_list_add calls, in the order of the
\* calls, duplicates kept.
C1_InsertionOrder == \A l \in lalloc : Traverse(l) = added[l]

C1_Witness ==
  \E l \in lalloc :
    /\ Len(added[l]) = 3
    /\ added[l][1] = added[l][3]
    /\ added[l][1] # added[l][2]
    /\ Traverse(l) = added[l]

\* C2: in every reachable state of a live list, root is NULL exactly when
\* end is NULL.
C2_RootEndNull == \A l \in lalloc : (root[l] = NULL) <=> (end[l] = NULL)

C2_Witness ==
  /\ op.name = "get_head"
  /\ op.node # NULL
  /\ root[op.l] = NULL
  /\ end[op.l] = NULL
  /\ \E k \in lalloc : root[k] # NULL /\ end[k] # NULL

\* C3: in every reachable state of a non-empty list, the walk from root
\* meets no node twice, its last node is end, and end->next is NULL.
C3_ChainEndsAtTail ==
  \A l \in lalloc :
    root[l] # NULL =>
      LET c == Chain(l) IN
      /\ c # <<>>
      /\ NoDup(c)
      /\ c[Len(c)] = end[l]
      /\ next[end[l]] = NULL

\* An interior node has just been removed.
C3_Witness ==
  /\ op.name = "remove"
  /\ op.node # NULL
  /\ op.n >= 1
  /\ Len(Chain(op.l)) > op.n
  /\ root[op.l] # NULL

\* C4: _ssh_list_get_head on a list holding <d1, ..., dn> returns d1 and
\* leaves the list holding <d2, ..., dn>; on an empty list it returns NULL
\* and changes nothing.
C4_Fifo ==
  [][\A l \in Lists :
       (op'.name = "get_head" /\ op'.l = l) =>
         IF Traverse(l) = <<>>
         THEN op'.ret = NULL /\ UNCHANGED heap
         ELSE /\ op'.ret = Head(Traverse(l))
              /\ Traverse(l)' = Tail(Traverse(l))]_vars

C4_Witness ==
  /\ op.name = "get_head"
  /\ op.node # NULL
  /\ Len(Traverse(op.l)) = 2
  /\ Traverse(op.l)[1] # Traverse(op.l)[2]
  /\ op.ret = Traverse(op.l)[2]

\* C5: a successful ssh_list_add followed by ssh_list_remove of the node
\* that add made leaves the list with the root, the end, the chain and the
\* contents it had before the add.
C5_AddRemove ==
  (op.name = "remove" /\ pre.of = op.l) =>
    /\ root[op.l] = pre.root
    /\ end[op.l] = pre.end
    /\ Chain(op.l) = pre.chain
    /\ Traverse(op.l) = pre.trav

C5_Witness ==
  /\ op.name = "remove"
  /\ pre.of = op.l
  /\ op.node # NULL
  /\ Len(pre.chain) = 2
  /\ Chain(op.l) = pre.chain

\* C6: ssh_list_remove with an iterator that is not a node of the list's
\* chain (NULL, a released node, a node of another list) changes no root,
\* end, next or data field, releases nothing and reports nothing.
C6_RemoveAbsent ==
  [][\A l \in Lists :
       (op'.name = "remove" /\ op'.l = l /\ ~InChain(l, op'.arg)) =>
         /\ UNCHANGED heap
         /\ op'.node = NULL
         /\ op'.ret = NULL
         /\ ~dfree'
         /\ ~uaf']_vars

\* The iterator passed was a node of the other list.
C6_Witness ==
  /\ op.name = "remove"
  /\ op.node = NULL
  /\ op.arg # NULL
  /\ Chain(op.l) # <<>>
  /\ \E k \in lalloc \ {op.l} : InChain(k, op.arg)

\* C7: when node allocation fails, ssh_list_add returns SSH_ERROR and
\* leaves the heap as it was; it returns SSH_OK only when the element has
\* been appended.
C7_AddFailure ==
  [][\A l \in Lists :
       (op'.name = "add" /\ op'.l = l) =>
         /\ op'.ret \in {SSH_OK, SSH_ERROR}
         /\ (op'.node = NULL => op'.ret = SSH_ERROR /\ UNCHANGED heap)
         /\ (op'.ret = SSH_OK =>
               /\ Chain(l)' = Append(Chain(l), op'.node)
               /\ Traverse(l)' = Append(Traverse(l), op'.arg))]_vars

\* An allocation failed although a node block was free.
C7_Witness ==
  /\ op.name = "add"
  /\ op.ret = SSH_ERROR
  /\ op.node = NULL
  /\ Chain(op.l) # <<>>
  /\ alloc # Addr

\* C8: removing the only element of a one-element list, by ssh_list_remove
\* on its iterator or by _ssh_list_get_head, leaves root and end NULL, and
\* ssh_list_get_iterator then returns NULL.
C8_SoleElement ==
  [][\A l \in Lists :
       ( /\ l \in lalloc
         /\ Len(Chain(l)) = 1
         /\ op'.l = l
         /\ \/ op'.name = "get_head"
            \/ op'.name = "remove" /\ op'.arg = Chain(l)[1] ) =>
         /\ root'[l] = NULL
         /\ end'[l] = NULL
         /\ ssh_list_get_iterator(l)' = NULL]_vars

C8_Witness ==
  /\ op.name = "remove"
  /\ op.node # NULL
  /\ op.n = 0
  /\ root[op.l] = NULL
  /\ end[op.l] = NULL
  /\ ssh_list_get_iterator(op.l) = NULL

\* C9: ssh_list_free releases every node of the chain exactly once and
\* then the list block, reads no block it has released, leaves every
\* other node as it was, and frees or writes through no data reference.
C9_Free ==
  [][\A l \in Lists :
       (op'.name = "free" /\ op'.l = l) =>
         /\ alloc' = alloc \ Range(Chain(l))
         /\ lalloc' = lalloc \ {l}
         /\ op'.n = Len(Chain(l))
         /\ ~uaf'
         /\ ~dfree'
         /\ touched' = {}
         /\ \A a \in alloc' : next'[a] = next[a] /\ data'[a] = data[a]]_vars

\* A list of two nodes was freed while the other list held a node.
C9_Witness ==
  /\ op.name = "free"
  /\ op.n = 2
  /\ alloc # {}
  /\ ~uaf
  /\ ~dfree

\* The path has a character other than '/'.
HasName(p) == p # NullStr /\ \E i \in 1..Len(p) : p[i] # Slash

\* The last maximal run of characters other than '/'.
LastRun(p) ==
  LET j == CHOOSE j \in 1..Len(p) :
             p[j] # Slash /\ \A k \in (j + 1)..Len(p) : p[k] = Slash
      i == CHOOSE i \in 1..j :
             (\A k \in i..j : p[k] # Slash) /\ (i = 1 \/ p[i - 1] = Slash)
  IN SubSeq(p, i, j)

\* C10: for every path with a character other than '/', the string
\* ssh_basename returns holds no '/' and is the last maximal run of
\* characters other than '/' of the path.
C10_Basename ==
  (fn = "basename" /\ res # NullStr /\ HasName(path)) =>
    /\ Slash \notin Range(res)
    /\ res = LastRun(path)

\* The index of the first character of the last maximal run of characters
\* other than '/'.
LastRunStart(p) ==
  LET j == CHOOSE j \in 1..Len(p) :
             p[j] # Slash /\ \A k \in (j + 1)..Len(p) : p[k] = Slash
  IN CHOOSE i \in 1..j :
       (\A k \in i..j : p[k] # Slash) /\ (i = 1 \/ p[i - 1] = Slash)

\* The path up to, not including, the run of '/' that ends before index i;
\* "/" when nothing but '/' comes before i.
DirPart(p, i) ==
  IF \A k \in 1..(i - 1) : p[k] = Slash
  THEN <<Slash>>
  ELSE LET e == CHOOSE e \in 1..(i - 1) :
                  p[e] # Slash /\ \A k \in (e + 1)..(i - 1) : p[k] = Slash
       IN SubSeq(p, 1, e)

\* C11: for every path whose last component has a '/' before it,
\* ssh_dirname returns the path up to, not including, the run of '/' that
\* separates off the last component, and "/" when only '/' comes before
\* it; the result is never the empty string.
C11_Dirname ==
  (fn = "dirname" /\ res # NullStr) =>
    /\ res # <<>>
    /\ (HasName(path) /\ LastRunStart(path) > 1) =>
         res = DirPart(path, LastRunStart(path))

\* C12: ssh_dirname and ssh_basename return "." for a NULL or empty path
\* and "/" for a path made only of '/'; ssh_dirname returns "." for every
\* path without a '/'.
C12_EdgeCases ==
  (fn \in {"dirname", "basename"} /\ res # NullStr) =>
    /\ (path = NullStr \/ path = <<>>) => res = <<".">>
    /\ (path # NullStr /\ path # <<>> /\ \A k \in 1..Len(path) : path[k] = Slash)
         => res = <<Slash>>
    /\ (fn = "dirname" /\ path # NullStr /\ Slash \notin Range(path))
         => res = <<".">>

\* ssh_dirname was given a name without any '/'.
C12_Witness ==
  /\ fn = "dirname"
  /\ path = <<"a", "b">>
  /\ res = <<".">>

\* The sequence seq without its element at index i.
Without(seq, i) == SubSeq(seq, 1, i - 1) \o SubSeq(seq, i + 1, Len(seq))

\* C13: on a list of n nodes the predecessor scan of ssh_list_remove ends
\* after at most n iterations, whether or not the iterator is in the
\* chain, and the walk of ssh_list_free ends after exactly n; n is at most
\* the number of allocated node blocks and no node is met twice.
C13_BoundedLoops ==
  [][\A l \in Lists :
       (op'.name \in {"remove", "free"} /\ op'.l = l) =>
         /\ NoDup(Chain(l))
         /\ Len(Chain(l)) <= Cardinality(alloc)
         /\ op'.n <= Len(Chain(l))
         /\ (op'.name = "free" => op'.n = Len(Chain(l)))
         /\ (op'.name = "remove" /\ ~InChain(l, op'.arg)
               => op'.n = Len(Chain(l)))]_vars

\* The scan ran over a whole two-node chain without finding the iterator.
C13_Witness ==
  /\ op.name = "remove"
  /\ op.node = NULL
  /\ op.arg # NULL
  /\ op.n = 2
  /\ Len(Chain(op.l)) = 2

\* C14: ssh_list_remove of the node at position i of <d1..dn> leaves
\* <d1..d(i-1), d(i+1)..dn>; for i = 1 root becomes the removed node's
\* next, for i = n end becomes the predecessor (NULL when n = 1) and the
\* predecessor's next becomes NULL, and for interior i root and end stay.
C14_RemoveAt ==
  [][\A l \in Lists :
       (op'.name = "remove" /\ op'.l = l /\ InChain(l, op'.arg)) =>
         LET c == Chain(l)
             n == Len(c)
             i == CHOOSE i \in 1..n : c[i] = op'.arg
         IN /\ Chain(l)' = Without(c, i)
            /\ Traverse(l)' = Without(Traverse(l), i)
            /\ op'.node = c[i]
            /\ (i = 1 => root'[l] = next[c[1]])
            /\ (i = n => /\ end'[l] = IF n = 1 THEN NULL ELSE c[n - 1]
                         /\ (n > 1 => next'[c[n - 1]] = NULL))
            /\ (1 < i /\ i < n =>
                  root'[l] = root[l] /\ end'[l] = end[l])]_vars

\* The middle node of three was removed; the two around it differ in data.
C14_Witness ==
  /\ op.name = "remove"
  /\ op.node # NULL
  /\ op.n = 1
  /\ Len(Chain(op.l)) = 2
  /\ Traverse(op.l)[1] # Traverse(op.l)[2]

ElemNodes(l) == {elems[l][i][1] : i \in 1..Len(elems[l])}

\* C15: after any interleaving of ssh_list_add, ssh_list_remove and
\* _ssh_list_get_head calls, the walk from the head yields exactly the
\* elements added and not yet removed or popped, in the order of their
\* adds.
C15_Survivors ==
  \A l \in lalloc :
    /\ Chain(l) = [i \in 1..Len(elems[l]) |-> elems[l][i][1]]
    /\ Traverse(l) = [i \in 1..Len(elems[l]) |-> elems[l][i][2]]

\* A removal from between two elements left both in the walk, the older
\* first.
C15_Witness ==
  /\ op.name = "remove"
  /\ op.node # NULL
  /\ op.n = 1
  /\ Len(elems[op.l]) = 2
  /\ Chain(op.l) = <<elems[op.l][1][1], elems[op.l][2][1]>>

\* C17: between calls, the node blocks allocated are exactly the nodes
\* reachable from the roots of the live lists, each list reaching exactly
\* the nodes added to it and not yet removed or popped; ssh_list_remove
\* and _ssh_list_get_head release the one node they unlink, once.
C17_NoLeakNoDangling ==
  /\ \A l \in lalloc : Range(Chain(l)) = ElemNodes(l)
  /\ alloc = UNION {Range(Chain(l)) : l \in lalloc}
  /\ \A l, k \in lalloc : l # k => Range(Chain(l)) \cap Range(Chain(k)) = {}
  /\ ~dfree
  /\ (op.name \in {"remove", "get_head"} /\ op.node # NULL)
       => op.node \notin alloc

\* A pop from one list while both lists hold nodes.
C17_Witness ==
  /\ op.name = "get_head"
  /\ op.node # NULL
  /\ op.node \notin alloc
  /\ \A l \in Lists : l \in lalloc /\ Chain(l) # <<>>
  /\ Cardinality(alloc) = 2

\* C16: on a non-empty list _ssh_list_get_head leaves the heap (root, end,
\* next and data fields, allocated blocks) that ssh_list_remove of
\* ssh_list_get_iterator(list) would leave, releases the same node, and
\* returns the data the head node held.
C16_PopIsRemoveHead ==
  [][\A l \in Lists :
       (op'.name = "get_head" /\ op'.l = l /\ root[l] # NULL) =>
         LET r == remove_result(l, ssh_list_get_iterator(l)) IN
         /\ root' = r.root
         /\ end' = r.end
         /\ alloc' = r.alloc
         /\ next' = r.next
         /\ data' = r.data
         /\ op'.node = r.node
         /\ r.node = ssh_list_get_iterator(l)
         /\ op'.ret = data[ssh_list_get_iterator(l)]]_vars

\* A pop from a list of three.
C16_Witness ==
  /\ op.name = "get_head"
  /\ op.node # NULL
  /\ Len(Chain(op.l)) = 2
  /\ op.ret = NULL
  /\ Traverse(op.l) = <<1, 1>>

\* C18 as claimed: _ssh_list_get_head returns NULL exactly when the list is
\* empty at the call, whatever data references were added.
C18_NullIffEmpty ==
  [][\A l \in Lists :
       (op'.name = "get_head" /\ op'.l = l) =>
         (op'.ret = NULL <=> root[l] = NULL)]_vars

\* C18: _ssh_list_get_head returns NULL exactly when the list is empty or
\* its head node holds the NULL data reference; on a list that holds no
\* NULL data reference it returns NULL exactly when the list is empty.
C18_NullIffEmptyOrNullData ==
  [][\A l \in Lists :
       (op'.name = "get_head" /\ op'.l = l) =>
         /\ op'.ret = NULL <=> (root[l] = NULL \/ data[root[l]] = NULL)
         /\ NULL \notin Range(Traverse(l)) =>
              (op'.ret = NULL <=> Chain(l) = <<>>)]_vars

\* A pop returned NULL from a list that still holds elements.
C18_Witness ==
  /\ op.name = "get_head"
  /\ op.ret = NULL
  /\ op.node # NULL
  /\ Chain(op.l) # <<>>

\* C19 as claimed: ssh_list_remove with the value of an iterator whose node
\* was already removed or popped removes nothing, whatever ssh_list_add
\* calls came in between.
C19_StaleRemoveNoop ==
  [][\A l \in Lists :
       (stale # NULL /\ op'.name = "remove" /\ op'.l = l
          /\ op'.arg = stale) =>
         /\ UNCHANGED heap
         /\ op'.node = NULL]_vars

\* C19: ssh_list_remove with such a value removes nothing unless an
\* ssh_list_add in between was given the released block again and its node
\* is in the list; then it removes exactly that newer node.
C19_StaleRemoveUnlessReused ==
  [][\A l \in Lists :
       (stale # NULL /\ op'.name = "remove" /\ op'.l = l
          /\ op'.arg = stale) =>
         IF stale \in alloc /\ InChain(l, stale)
         THEN /\ op'.node = stale
              /\ Range(Chain(l)') = Range(Chain(l)) \ {stale}
              /\ alloc' = alloc \ {stale}
         ELSE /\ UNCHANGED heap
              /\ op'.node = NULL]_vars

\* The stale value was passed again while no add had reused its block and
\* the list held other nodes.
C19_Witness ==
  /\ op.name = "remove"
  /\ op.arg = stale
  /\ stale # NULL
  /\ op.node = NULL
  /\ Chain(op.l) # <<>>
====
